---- MODULE Spec2Model ----
(***************************************************************************)
(* GeminiForge: the staged workflow engine (ProjectWorkflowManager), the   *)
(* per-call retry loop (GeminiAPIManager.call_api) and the response        *)
(* parser (GeminiAPIManager.parse_json_response and its four strategies).  *)
(*                                                                         *)
(* A response text is a sequence of tokens.  A token is one character that *)
(* the parser or its regular expressions distinguish (brace, bracket,      *)
(* quote, colon, comma, backslash, blank, newline, control character), the *)
(* three-backtick fence, a number literal, or a word: a maximal run of     *)
(* characters none of which the code distinguishes.                        *)
(***************************************************************************)
EXTENDS Integers, Sequences, FiniteSets, TLC

VARIABLES
    ctx,        \* ProjectWorkflowManager.context (the in-memory ProjectContext)
    disk,       \* projects/<name>/project_context.json
    pc,         \* position of the single control flow
    mode,       \* entry point active: "none", "run", "run_resume", "resume"
    user_input, \* argument of the active run/resume invocation
    stage,      \* index of the stage method being executed (0: none)
    tasks,      \* the call_api invocations of the stage being executed
    exc,        \* the exception propagating out of a stage ("" when none)
    hist,       \* bookkeeping of the active invocation (calls issued, stages entered)
    outcome,    \* how the last invocation ended
    clock,      \* wall clock read by datetime.now() at construction
    faults,     \* number of injected failures so far
    ptext,      \* parse_json_response: the text being parsed
    pidx,       \* parse_json_response: strategies tried so far
    pret,       \* parse_json_response: what it returned
    artifacts   \* the files a stage method writes from its result

vars == <<ctx, disk, pc, mode, user_input, stage, tasks, exc, hist,
          outcome, clock, faults, ptext, pidx, pret, artifacts>>

wfvars == <<ctx, disk, pc, mode, user_input, stage, tasks, exc, hist,
            outcome, clock, faults>>

pvars == <<ptext, pidx, pret>>

fvars == <<artifacts>>

(***************************************************************************)
(* Tokens                                                                  *)
(***************************************************************************)
LB == "{"
RB == "}"
LK == "["
RK == "]"
QT == "\""
CO == ":"
CM == ","
BS == "\\"
SP == " "
NL == "\n"
CTL == "<ctl>"      \* a control character that is not white space (\x01)
FENCE == "<fence>"  \* three backticks
JSONTAG == "json"   \* the word json

WsToks == {SP, NL}
ControlToks == {NL, CTL}
NumToks == {"0", "1", "85"}

NumVal(t) == CASE t = "0" -> 0 [] t = "1" -> 1 [] OTHER -> 85

(***************************************************************************)
(* Python values: what json.loads returns, and None                        *)
(***************************************************************************)
None == [tag |-> "none"]
JNull == [tag |-> "null"]
JBool(b) == [tag |-> "bool", bool |-> b]
JNum(n) == [tag |-> "num", num |-> n]
JStr(s) == [tag |-> "str", str |-> s]
JArr(xs) == [tag |-> "arr", arr |-> xs]
JObj(ps) == [tag |-> "obj", obj |-> ps]
Pair(k, v) == [k |-> k, v |-> v]

IsDict(v) == v.tag = "obj"

\* bool(v): Python truthiness
Truthy(v) ==
    CASE v.tag = "none" -> FALSE
      [] v.tag = "null" -> FALSE
      [] v.tag = "bool" -> v.bool
      [] v.tag = "num" -> v.num # 0
      [] v.tag = "str" -> Len(v.str) > 0
      [] v.tag = "arr" -> Len(v.arr) > 0
      [] v.tag = "obj" -> Len(v.obj) > 0

\* key in d, for a dict d
HasKey(d, k) == \E i \in 1..Len(d.obj) : d.obj[i].k = k

\* d[k], for a dict d holding k
GetKey(d, k) == d.obj[CHOOSE i \in 1..Len(d.obj) : d.obj[i].k = k].v

\* d[k] = v on a dict's item list: a key keeps its first position
PutKey(ps, k, v) ==
    IF \E i \in 1..Len(ps) : ps[i].k = k
      THEN [i \in 1..Len(ps) |-> IF ps[i].k = k THEN Pair(k, v) ELSE ps[i]]
      ELSE Append(ps, Pair(k, v))

(***************************************************************************)
(* Sequence helpers                                                        *)
(***************************************************************************)
Min(S) == CHOOSE x \in S : \A y \in S : x <= y
Max(S) == CHOOSE x \in S : \A y \in S : x >= y

\* s[i:] with Python's 0-based i given as the 1-based first index kept
From(s, i) == SubSeq(s, i, Len(s))

\* str.strip()
Strip(s) ==
    LET keep == {i \in 1..Len(s) : s[i] \notin WsToks}
    IN IF keep = {} THEN <<>> ELSE SubSeq(s, Min(keep), Max(keep))

\* first index of token t in s at or after i, or 0
Find(s, t, i) ==
    LET hits == {j \in i..Len(s) : s[j] = t}
    IN IF hits = {} THEN 0 ELSE Min(hits)

\* first index at or after i where the two-token marker <<FENCE, JSONTAG>> starts, or 0
FindTagged(s, i) ==
    LET hits == {j \in i..(Len(s) - 1) : s[j] = FENCE /\ s[j + 1] = JSONTAG}
    IN IF hits = {} THEN 0 ELSE Min(hits)

\* number of occurrences of token t in s
Count(s, t) == Cardinality({j \in 1..Len(s) : s[j] = t})

\* the subsequence of s at the indices satisfying keep
RECURSIVE Filter(_, _, _)
Filter(s, drop, i) ==
    IF i > Len(s) THEN <<>>
    ELSE IF i \in drop THEN Filter(s, drop, i + 1)
    ELSE <<s[i]>> \o Filter(s, drop, i + 1)

(***************************************************************************)
(* json.loads (the standard library decoder the four strategies call)      *)
(***************************************************************************)
Fail == [ok |-> FALSE, val |-> None, pos |-> 0]
Ok(v, p) == [ok |-> TRUE, val |-> v, pos |-> p]

\* index of the first token at or after i that is not white space
SkipWs(s, i) == Min({j \in i..(Len(s) + 1) : j = Len(s) + 1 \/ s[j] \notin WsToks})

\* The words of the alphabet that start with an escape letter (n, t, f): after a
\* backslash the first letter is the escape and the rest is text.  No other word
\* of the alphabet starts with an escape letter when it follows a backslash.
EscWords == {"null", "true", "false"}
EscapeOf(t) ==
    CASE t = "null" -> <<NL, "ull">>
      [] t = "true" -> <<"<tab>", "rue">>
      [] t = "false" -> <<"<ff>", "alse">>

RECURSIVE ScanString(_, _, _)
\* a string body from index i (after the opening quote): its characters up to
\* the first unescaped quote; a control character or a dangling backslash is an error
ScanString(s, i, acc) ==
    IF i > Len(s) THEN Fail
    ELSE IF s[i] = QT THEN Ok(JStr(acc), i + 1)
    ELSE IF s[i] = BS THEN
        IF i + 1 <= Len(s) /\ s[i + 1] \in {QT, BS}
          THEN ScanString(s, i + 2, Append(acc, s[i + 1]))
        ELSE IF i + 1 <= Len(s) /\ s[i + 1] \in EscWords
          THEN ScanString(s, i + 2, acc \o EscapeOf(s[i + 1]))
        ELSE Fail
    ELSE IF s[i] \in ControlToks THEN Fail
    ELSE ScanString(s, i + 1, Append(acc, s[i]))

RECURSIVE ParseValue(_, _), ParseMembers(_, _, _), ParseElements(_, _, _)
\* one JSON value starting exactly at index i
ParseValue(s, i) ==
    IF i > Len(s) THEN Fail
    ELSE IF s[i] = QT THEN ScanString(s, i + 1, <<>>)
    ELSE IF s[i] = LB THEN
        LET j == SkipWs(s, i + 1)
        IN IF j <= Len(s) /\ s[j] = RB THEN Ok(JObj(<<>>), j + 1)
           ELSE ParseMembers(s, j, <<>>)
    ELSE IF s[i] = LK THEN
        LET j == SkipWs(s, i + 1)
        IN IF j <= Len(s) /\ s[j] = RK THEN Ok(JArr(<<>>), j + 1)
           ELSE ParseElements(s, j, <<>>)
    ELSE IF s[i] \in NumToks THEN Ok(JNum(NumVal(s[i])), i + 1)
    ELSE IF s[i] = "true" THEN Ok(JBool(TRUE), i + 1)
    ELSE IF s[i] = "false" THEN Ok(JBool(FALSE), i + 1)
    ELSE IF s[i] = "null" THEN Ok(JNull, i + 1)
    ELSE Fail

\* the members of an object from index i, where a key's opening quote must stand
ParseMembers(s, i, acc) ==
    IF i > Len(s) \/ s[i] # QT THEN Fail
    ELSE LET k == ScanString(s, i + 1, <<>>)
         IN IF ~k.ok THEN Fail
            ELSE LET c == SkipWs(s, k.pos)
                 IN IF c > Len(s) \/ s[c] # CO THEN Fail
                    ELSE LET v == ParseValue(s, SkipWs(s, c + 1))
                         IN IF ~v.ok THEN Fail
                            ELSE LET m == SkipWs(s, v.pos)
                                     items == PutKey(acc, k.val.str, v.val)
                                 IN IF m > Len(s) THEN Fail
                                    ELSE IF s[m] = RB THEN Ok(JObj(items), m + 1)
                                    ELSE IF s[m] = CM
                                      THEN ParseMembers(s, SkipWs(s, m + 1), items)
                                    ELSE Fail

\* the elements of an array from index i
ParseElements(s, i, acc) ==
    LET v == ParseValue(s, i)
    IN IF ~v.ok THEN Fail
       ELSE LET m == SkipWs(s, v.pos)
                items == Append(acc, v.val)
            IN IF m > Len(s) THEN Fail
               ELSE IF s[m] = RK THEN Ok(JArr(items), m + 1)
               ELSE IF s[m] = CM THEN ParseElements(s, SkipWs(s, m + 1), items)
               ELSE Fail

\* json.loads(s): [ok |-> FALSE] stands for the JSONDecodeError it raises
json_loads(s) ==
    LET r == ParseValue(s, SkipWs(s, 1))
    IN IF r.ok /\ SkipWs(s, r.pos) = Len(s) + 1
         THEN [ok |-> TRUE, val |-> r.val]
         ELSE [ok |-> FALSE, val |-> None]

Raised == [ok |-> FALSE, val |-> None]

(***************************************************************************)
(* The four parsing strategies.  Each returns [ok |-> TRUE, val |-> v]     *)
(* when it returns v, and Raised when it raises.                           *)
(***************************************************************************)
parse_clean_json(text) == json_loads(Strip(text))

\* s.split(FENCE)[0]: s up to its first fence
BeforeFence(s) ==
    LET c == Find(s, FENCE, 1)
    IN IF c = 0 THEN s ELSE SubSeq(s, 1, c - 1)

parse_markdown_json(text) ==
    IF FindTagged(text, 1) # 0 THEN
        LET a == FindTagged(text, 1)
            rest == From(text, a + 2)
            b == FindTagged(rest, 1)
            part == IF b = 0 THEN rest ELSE SubSeq(rest, 1, b - 1)
        IN json_loads(Strip(BeforeFence(part)))
    ELSE IF Find(text, FENCE, 1) # 0 THEN
        LET a == Find(text, FENCE, 1)
            rest == From(text, a + 1)
            part == BeforeFence(rest)
        IN json_loads(Strip(BeforeFence(part)))
    ELSE Raised

RECURSIVE BraceEnd(_, _, _)
\* the scan of parse_partial_json from index i with brace_count count: the index
\* of the closing brace that brings the count to zero, or 0 when none does
BraceEnd(text, i, count) ==
    IF i > Len(text) THEN 0
    ELSE IF text[i] = LB THEN BraceEnd(text, i + 1, count + 1)
    ELSE IF text[i] = RB THEN
        IF count - 1 = 0 THEN i ELSE BraceEnd(text, i + 1, count - 1)
    ELSE BraceEnd(text, i + 1, count)

\* the substring parse_partial_json hands to json.loads (<<>> when it raises first)
partial_extract(text) ==
    LET start == Find(text, LB, 1)
        end == IF start = 0 THEN 0 ELSE BraceEnd(text, start, 0)
    IN IF start = 0 \/ end = 0 THEN <<>> ELSE SubSeq(text, start, end)

parse_partial_json(text) ==
    LET start == Find(text, LB, 1)
    IN IF start = 0 THEN Raised
       ELSE IF BraceEnd(text, start, 0) = 0 THEN Raised
       ELSE json_loads(partial_extract(text))

RECURSIVE SplitLines(_)
\* text.split('\n')
SplitLines(text) ==
    LET n == Find(text, NL, 1)
    IN IF n = 0 THEN <<text>>
       ELSE <<SubSeq(text, 1, n - 1)>> \o SplitLines(From(text, n + 1))

RECURSIVE JoinLines(_)
\* '\n'.join(lines)
JoinLines(lines) ==
    IF Len(lines) = 0 THEN <<>>
    ELSE IF Len(lines) = 1 THEN lines[1]
    ELSE lines[1] \o <<NL>> \o JoinLines(Tail(lines))

RECURSIVE Accumulate(_, _, _, _)
\* the loop of parse_line_by_line_json from line i on: json_lines
Accumulate(lines, i, in_json, acc) ==
    IF i > Len(lines) THEN acc
    ELSE LET line == lines[i]
             st == Strip(line)
         IN IF (Len(st) > 0 /\ st[1] = LB) \/ in_json THEN
                IF Len(st) > 0 /\ st[Len(st)] = RB /\ Count(line, RB) >= Count(line, LB)
                  THEN Append(acc, line)
                  ELSE Accumulate(lines, i + 1, TRUE, Append(acc, line))
            ELSE Accumulate(lines, i + 1, FALSE, acc)

\* re.sub(r',(\s*[}\]])', r'\1', s): drop each comma that white space and then a
\* closing brace or bracket follow
StripTrailingCommas(s) ==
    LET drop == {i \in 1..Len(s) :
                    /\ s[i] = CM
                    /\ SkipWs(s, i + 1) <= Len(s)
                    /\ s[SkipWs(s, i + 1)] \in {RB, RK}}
    IN Filter(s, drop, 1)

RECURSIVE EscapeFrom(_, _)
\* re.sub(r'(?<!\\)"(?![,\]\}:\s])', r'\\"', s): a backslash goes before each quote
\* that no backslash precedes and that none of , ] } : or white space follows
EscapeFrom(s, i) ==
    IF i > Len(s) THEN <<>>
    ELSE IF /\ s[i] = QT
            /\ (i = 1 \/ s[i - 1] # BS)
            /\ ~(i < Len(s) /\ s[i + 1] \in ({CM, RK, RB, CO} \cup WsToks))
      THEN <<BS, QT>> \o EscapeFrom(s, i + 1)
      ELSE <<s[i]>> \o EscapeFrom(s, i + 1)

EscapeQuotes(s) == EscapeFrom(s, 1)

\* re.sub(r'[\x00-\x1f\x7f-\x9f]', '', s)
RemoveControl(s) == Filter(s, {i \in 1..Len(s) : s[i] \in ControlToks}, 1)

fix_common_json_issues(json_str) ==
    RemoveControl(EscapeQuotes(StripTrailingCommas(json_str)))

parse_line_by_line_json(text) ==
    LET json_lines == Accumulate(SplitLines(text), 1, FALSE, <<>>)
    IN IF Len(json_lines) = 0 THEN Raised
       ELSE json_loads(fix_common_json_issues(JoinLines(json_lines)))

\* the list with the brace-matched strategy before the fenced-block strategy
parsing_strategies_swapped == <<"clean", "partial", "markdown", "line_by_line">>
\* parsing_strategies: the list parse_json_response walks
parsing_strategies == <<"clean", "markdown", "partial", "line_by_line">>

\* strategy(response_text) for the strategy named n
ApplyStrategy(n, text) ==
    CASE n = "clean" -> parse_clean_json(text)
      [] n = "markdown" -> parse_markdown_json(text)
      [] n = "partial" -> parse_partial_json(text)
      [] n = "line_by_line" -> parse_line_by_line_json(text)

\* one iteration of the loop of parse_json_response (lines 197-204):
\* "return" with the value when the strategy's result is returned, "continue" when
\* the loop goes on: the result was empty or false, or the strategy raised and the
\* handler continued
StrategyStep(n, text) ==
    LET r == ApplyStrategy(n, text)
    IN IF r.ok /\ Truthy(r.val)
         THEN [kind |-> "return", val |-> r.val]
         ELSE [kind |-> "continue", val |-> None]

RECURSIVE StrategyLoop(_, _)
StrategyLoop(text, i) ==
    IF i > Len(parsing_strategies) THEN None
    ELSE LET r == StrategyStep(parsing_strategies[i], text)
         IN IF r.kind = "return" THEN r.val ELSE StrategyLoop(text, i + 1)

\* parse_json_response(response_text, model_name, attempt): a value or None
parse_json_response(text) == StrategyLoop(text, 1)


(***************************************************************************)
(* Bounds of the model                                                     *)
(***************************************************************************)
\* injected failures in one behaviour: producer errors, unparseable responses,
\* raising module tasks, failing file writes
MaxFaults == 3
\* processes (constructions of ProjectWorkflowManager) in one behaviour
MaxProcs == 2

(***************************************************************************)
(* Stages, roles, records                                                  *)
(***************************************************************************)
Stages == 1..5
StageName == <<"requirements", "architecture", "code", "review", "deployment">>
FieldName == <<"requirements", "architecture", "codebase", "test_results", "deployment">>
Role == <<"planner", "architect", "developer", "reviewer", "devops">>

\* a loop of one more attempt
max_retries_more == 3 + 1
\* max_retries of call_api
max_retries == 3

S(w) == JStr(<<w>>)
K(w) == <<w>>
PARSE_FAILED == S("Parse failed - manual review needed")
PARTIAL_FAILURE == S("partial_failure")

\* a fallback that hands back nothing
get_default_structure_none(model_name) == None
\* get_default_structure(model_name)
get_default_structure(model_name) ==
    CASE model_name = "planner" -> JObj(<<
            Pair(K("requirements"), JArr(<<PARSE_FAILED>>)),
            Pair(K("user_stories"), JArr(<<PARSE_FAILED>>)),
            Pair(K("acceptance_criteria"), JArr(<<PARSE_FAILED>>)),
            Pair(K("timeline"), PARSE_FAILED),
            Pair(K("status"), PARTIAL_FAILURE)>>)
      [] model_name = "architect" -> JObj(<<
            Pair(K("architecture_type"), S("microservices")),
            Pair(K("tech_stack"), JObj(<<
                Pair(K("backend"), S("FastAPI")),
                Pair(K("frontend"), S("React")),
                Pair(K("database"), S("PostgreSQL"))>>)),
            Pair(K("database_schema"), PARSE_FAILED),
            Pair(K("api_design"), PARSE_FAILED),
            Pair(K("status"), PARTIAL_FAILURE)>>)
      [] model_name = "developer" -> JObj(<<
            Pair(K("modules"), JArr(<<S("backend"), S("frontend"), S("database")>>)),
            Pair(K("file_structure"), JObj(<<
                Pair(K("backend/"), S("FastAPI application structure")),
                Pair(K("frontend/"), S("React application structure")),
                Pair(K("database/"), S("Database migration files"))>>)),
            Pair(K("code_files"), JObj(<<
                Pair(K("README.md"), S("readme")),
                Pair(K("main.py"), S("app")),
                Pair(K("requirements.txt"), S("pins"))>>)),
            Pair(K("dependencies"), JArr(<<S("fastapi"), S("react"), S("postgresql")>>)),
            Pair(K("status"), PARTIAL_FAILURE)>>)
      [] model_name = "reviewer" -> JObj(<<
            Pair(K("code_quality_score"), JNum(0)),
            Pair(K("issues"), JArr(<<S("JSON parsing failed")>>)),
            Pair(K("suggestions"), JArr(<<S("Fix JSON parsing issues"), S("Manual code review needed")>>)),
            Pair(K("test_files"), JObj(<<Pair(K("test_main.py"), S("test"))>>)),
            Pair(K("security_report"), PARSE_FAILED),
            Pair(K("status"), PARTIAL_FAILURE)>>)
      [] model_name = "devops" -> JObj(<<
            Pair(K("docker_files"), JObj(<<
                Pair(K("Dockerfile"), S("dockerfile")),
                Pair(K("docker-compose.yml"), S("compose"))>>)),
            Pair(K("ci_cd_config"), JObj(<<
                Pair(K(".github/workflows/deploy.yml"), S("workflow"))>>)),
            Pair(K("k8s_manifests"), JObj(<<
                Pair(K("deployment.yaml"), S("manifest"))>>)),
            Pair(K("deployment_guide"), PARSE_FAILED),
            Pair(K("status"), PARTIAL_FAILURE)>>)
      [] OTHER -> JObj(<<
            Pair(K("error"), S("Unknown model")),
            Pair(K("status"), S("failure"))>>)

\* ProjectContext(project_name=...) constructed at time t (context.py)
ProjectContext(t) ==
    [project_name |-> "p",
     requirements |-> None, architecture |-> None, codebase |-> None,
     test_results |-> None, deployment |-> None,
     created_at |-> t, current_stage |-> "not_started"]

\* the project_context.json file
NoFile == [state |-> "missing", data |-> None]
CorruptFile == [state |-> "corrupt", data |-> None]
SavedFile(c) == [state |-> "ok", data |-> c]

\* a load that restores nothing
load_existing_context_norestore(c, file) == c

\* load_existing_context on a context c just constructed: a missing file and a
\* file json.load rejects (the handler logs a warning) both leave c as it is
load_existing_context(c, file) ==
    IF file.state = "ok" THEN
        [c EXCEPT !.requirements = file.data.requirements,
                  !.architecture = file.data.architecture,
                  !.codebase = file.data.codebase,
                  !.test_results = file.data.test_results,
                  !.deployment = file.data.deployment,
                  !.current_stage = file.data.current_stage]
    ELSE c

\* save_context: json.dump(asdict(self.context)) over the file
save_context(c) == SavedFile(c)

(***************************************************************************)
(* The producer's responses (response.text of model.generate_content)      *)
(***************************************************************************)
Q(w) == <<QT, w, QT>>

TxtGarbage == <<"Sorry", SP, "I", SP, "cannot">>
TxtEmpty == <<LB, RB>>
TxtList == <<LK, "1", RK>>
TxtNum == <<"85">>
TxtReq ==
    <<"Here", SP, LB>> \o Q("requirements") \o <<CO, LK>> \o Q("login") \o <<RK, RB>>
TxtArch ==
    <<FENCE, JSONTAG, NL, LB>> \o Q("modules") \o <<CO, LK>> \o Q("api")
        \o <<CM>> \o Q("web") \o <<RK, RB, NL, FENCE>>
TxtDev ==
    <<LB>> \o Q("dependencies") \o <<CO, LK>> \o Q("flask") \o <<RK, CM>>
        \o Q("code_files") \o <<CO, LB>> \o Q("app.py") \o <<CO>> \o Q("code") \o <<RB, RB>>
TxtRev ==
    <<LB>> \o Q("test_files") \o <<CO, LB>> \o Q("test_app.py") \o <<CO>> \o Q("code")
        \o <<RB, RB, NL>>
TxtOps ==
    <<LB>> \o Q("docker_files") \o <<CO, LB>> \o Q("Dockerfile") \o <<CO>> \o Q("image")
        \o <<RB, RB>>

ResponsesFor(role) ==
    CASE role = "planner" -> {TxtReq, TxtGarbage}
      [] role = "architect" -> {TxtArch, TxtList, TxtEmpty}
      [] role = "developer" -> {TxtDev, TxtList}
      [] role = "reviewer" -> {TxtRev, TxtNum}
      [] role = "devops" -> {TxtOps, TxtEmpty}

AllResponses == UNION {ResponsesFor(Role[i]) : i \in Stages}

\* call_api lines 169-170: response.text.strip() handed to parse_json_response
ParsedResponse == [t \in AllResponses |-> parse_json_response(Strip(t))]

\* user_input values: None, a request
UserInputs == {None, S("build a shop")}


(***************************************************************************)
(* call_api: one invocation is a task                                      *)
(***************************************************************************)
NewTask(m) ==
    [module |-> m, st |-> "new", attempt |-> 0, log |-> <<>>, sleeps |-> <<>>,
     res |-> None]

Pow2(n) == IF n = 0 THEN 1 ELSE IF n = 1 THEN 2 ELSE 4

\* an attempt that never returns what it parsed
AttemptReturns_never(result) == FALSE
\* an attempt that returns whatever the parser gave
AttemptReturns_always(result) == TRUE
\* line 172, "if result:": whether the attempt returns the parsed value
AttemptReturns(result) == Truthy(result)

\* the task after an attempt whose response text parsed to result (no exception):
\* return it, or go round the loop again at once, or fall out of the loop
AfterResponse(t, role, text, result) ==
    IF AttemptReturns(result)
      THEN [t EXCEPT !.st = "done", !.res = result, !.log = Append(@, text)]
    ELSE IF t.attempt + 1 < max_retries
      THEN [t EXCEPT !.st = "retry", !.attempt = @ + 1, !.log = Append(@, text)]
    ELSE [t EXCEPT !.st = "done", !.res = get_default_structure(role),
                   !.log = Append(@, text)]

\* the task after an attempt that raised (lines 176-182): sleep 2 ** attempt and
\* go on, or return the default structure from the handler
AfterError(t, role) ==
    IF t.attempt < max_retries - 1
      THEN [t EXCEPT !.st = "sleeping", !.sleeps = Append(@, Pow2(t.attempt)),
                     !.log = Append(@, <<"<error>">>)]
      ELSE [t EXCEPT !.st = "done", !.res = get_default_structure(role),
                     !.log = Append(@, <<"<error>">>)]

(***************************************************************************)
(* Stage methods                                                           *)
(***************************************************************************)
DefaultModules == <<K("backend"), K("frontend"), K("database")>>

\* stage_3_code_generation line 156 raises AttributeError on a value without .get
ModulesRaise(arch) == ~IsDict(arch)

\* self.context.architecture.get('modules', [...]): the module names.  The
\* responses of the model carry the modules as a list of strings.
ModulesOf(arch) ==
    IF HasKey(arch, K("modules"))
      THEN [i \in 1..Len(GetKey(arch, K("modules")).arr) |->
                GetKey(arch, K("modules")).arr[i].str]
      ELSE DefaultModules

\* the tasks a stage method creates
StageTasks(i, c) ==
    IF i = 3 THEN [j \in 1..Len(ModulesOf(c.architecture)) |->
                      NewTask(ModulesOf(c.architecture)[j])]
    ELSE <<NewTask(<<>>)>>

\* results[i].get("dependencies", [])
DepsOf(rec) ==
    IF HasKey(rec, K("dependencies")) THEN GetKey(rec, K("dependencies")).arr ELSE <<>>

RECURSIVE Dedup(_)
\* list(set(xs)): the order of the result is unspecified and nothing reads it;
\* the first occurrences are kept in their order
Dedup(xs) ==
    IF Len(xs) = 0 THEN <<>>
    ELSE IF \E j \in 1..(Len(xs) - 1) : xs[j] = xs[Len(xs)]
      THEN Dedup(SubSeq(xs, 1, Len(xs) - 1))
      ELSE Append(Dedup(SubSeq(xs, 1, Len(xs) - 1)), xs[Len(xs)])

\* isinstance(results[i], Exception)
IsException(t) == t.st = "raised"

\* the merge loop raises AttributeError at results[i].get on a value that is no dict
MergeRaises(ts) == \E i \in 1..Len(ts) : ~IsException(ts[i]) /\ ~IsDict(ts[i].res)

\* a merge that pairs the module names with the results in the opposite order
MergeModules_reversed(ts, n) ==
    [i \in 1..n |->
        Pair(ts[i].module,
             IF IsException(ts[n - i + 1]) THEN get_default_structure("developer")
             ELSE ts[n - i + 1].res)]

RECURSIVE MergeModules(_, _), MergeDeps(_, _)
MergeModules(ts, n) ==
    IF n = 0 THEN <<>>
    ELSE PutKey(MergeModules(ts, n - 1), ts[n].module,
                IF IsException(ts[n]) THEN get_default_structure("developer")
                ELSE ts[n].res)

MergeDeps(ts, n) ==
    IF n = 0 THEN <<>>
    ELSE MergeDeps(ts, n - 1) \o (IF IsException(ts[n]) THEN <<>> ELSE DepsOf(ts[n].res))

\* combined_result of stage_3_code_generation (lines 188-208)
Combine(ts) ==
    JObj(<<
        Pair(K("modules"), JObj(MergeModules(ts, Len(ts)))),
        Pair(K("file_structure"), JObj(<<>>)),
        Pair(K("dependencies"), JArr(Dedup(MergeDeps(ts, Len(ts))))),
        Pair(K("status"),
             IF \E i \in 1..Len(ts) : IsException(ts[i])
               THEN PARTIAL_FAILURE ELSE S("completed"))>>)

\* the value a stage method stores into its context field
StageResult(i, ts) == IF i = 3 THEN Combine(ts) ELSE ts[1].res

\* the membership tests of stages 4 and 5 ("test_files" in result, data_key in
\* deployment_data) raise TypeError on a number, a boolean or None
FilesRaise(i, v) == i \in {4, 5} /\ v.tag \in {"num", "bool", "null"}

(***************************************************************************)
(* Entry points                                                            *)
(***************************************************************************)
\* a resume_workflow that passes over the requirements stage where it should raise
ResumeDecision_noraise(c, i, u) ==
    IF Truthy(c[FieldName[i]]) THEN "skip"
    ELSE IF i = 1 /\ ~Truthy(u) THEN "skip"
    ELSE "run"

\* a resume_workflow that runs a stage whether or not its field holds a value
ResumeDecision_rerun(c, i, u) ==
    IF i = 1 /\ ~Truthy(c[FieldName[i]]) /\ ~Truthy(u) THEN "raise" ELSE "run"

\* one `if not self.context.<field>:` of resume_workflow, for stage i
ResumeDecision(c, i, u) ==
    IF Truthy(c[FieldName[i]]) THEN "skip"
    ELSE IF i = 1 /\ ~Truthy(u) THEN "raise"
    ELSE "run"

\* run_full_workflow past its check of current_stage calls the five stage methods
RunDecision(c, i, u) == "run"

Decision(m, c, i, u) ==
    IF m = "run" THEN RunDecision(c, i, u) ELSE ResumeDecision(c, i, u)

\* a run_full_workflow that never hands over to resume_workflow
RunDelegates_never(c) == FALSE

\* run_full_workflow line 436
RunDelegates(c) == c.current_stage # "not_started"

InTry(m) == m \in {"run", "run_resume"}

Present(c) == {i \in Stages : Truthy(c[FieldName[i]])}
PresentOnDisk(f) == IF f.state = "ok" THEN Present(f.data) ELSE {}


(***************************************************************************)
(* The workflow as a state machine                                         *)
(***************************************************************************)
\* the bookkeeping when no invocation is being looked at
NoHist(h) ==
    [kind |-> "none", called |-> {}, ncalls |-> 0, entered |-> <<>>,
     ctx0 |-> ProjectContext(0), disk0 |-> NoFile, prev_ok |-> FALSE, ever |-> h.ever]

\* whether the last invocation was a resume_workflow that returned (kind is
\* "none" once the process that made it has ended; prev_ok then remembers it)
ResumeReturned(h, o) ==
    o = "returned" /\ (h.kind = "resume" \/ (h.kind = "none" /\ h.prev_ok))

NewHist(kind, h, c, f, o) ==
    [kind |-> kind, called |-> {}, ncalls |-> 0, entered |-> <<>>, ctx0 |-> c, disk0 |-> f,
     prev_ok |-> ResumeReturned(h, o), ever |-> h.ever]

WfInit ==
    /\ ctx = ProjectContext(1)
    /\ disk = NoFile
    /\ pc = "idle"
    /\ mode = "none"
    /\ user_input = None
    /\ stage = 0
    /\ tasks = <<>>
    /\ exc = ""
    /\ hist = NoHist([ever |-> {}])
    /\ outcome = "none"
    /\ clock = 1
    /\ faults = 0

PInit ==
    /\ ptext = <<>>
    /\ pidx = 0
    /\ pret = [status |-> "running", val |-> None]

\* no stage method is writing files
NoArtifacts ==
    [kind |-> "none", files |-> <<>>, idx |-> 0, written |-> {}, failed |-> {},
     state |-> "idle"]

FInit == artifacts = NoArtifacts

Init == WfInit /\ PInit /\ FInit

\* the file after save_context, and the fields that have been persisted so far
Persist(c) == save_context(c)
EverAfter(c) == hist.ever \cup Present(c)

\* ProjectWorkflowManager(api_manager, project_name) in a new process
Construct ==
    /\ pc = "down"
    /\ clock < MaxProcs
    /\ clock' = clock + 1
    /\ ctx' = load_existing_context(ProjectContext(clock + 1), disk)
    /\ pc' = "idle"
    /\ UNCHANGED <<disk, mode, user_input, stage, tasks, exc, hist, outcome, faults>>

\* the process ends or is killed; nothing is being written
Crash ==
    /\ pc # "down"
    /\ clock < MaxProcs
    /\ pc' = "down"
    /\ ctx' = ProjectContext(0)
    /\ mode' = "none"
    /\ stage' = 0
    /\ tasks' = <<>>
    /\ exc' = ""
    /\ outcome' = IF pc = "idle" THEN outcome ELSE "crashed"
    /\ user_input' = None
    /\ hist' = [NoHist(hist) EXCEPT
                   !.prev_ok = (pc = "idle" /\ ResumeReturned(hist, outcome))]
    /\ UNCHANGED <<disk, clock, faults>>

\* whether the next step of the control flow is a save_context
AtSave == pc \in {"save", "except"} \/ (pc = "next" /\ stage = 5)

\* the process is killed inside save_context, after open(..., 'w') has truncated
\* the file and before json.dump has written all of it
CrashInSave ==
    /\ AtSave
    /\ clock < MaxProcs
    /\ pc' = "down"
    /\ disk' = CorruptFile
    /\ ctx' = ProjectContext(0)
    /\ mode' = "none"
    /\ stage' = 0
    /\ tasks' = <<>>
    /\ exc' = ""
    /\ outcome' = "crashed"
    /\ user_input' = None
    /\ hist' = NoHist(hist)
    /\ UNCHANGED <<clock, faults>>

\* run_full_workflow(u) up to its first stage
Run(u) ==
    /\ pc = "idle"
    /\ mode' = IF RunDelegates(ctx) THEN "run_resume" ELSE "run"
    /\ user_input' = u
    /\ hist' = NewHist("run", hist, ctx, disk, outcome)
    /\ outcome' = "none"
    /\ stage' = 0
    /\ pc' = "next"
    /\ UNCHANGED <<ctx, disk, tasks, exc, clock, faults>>

\* resume_workflow(u) up to its first check
Resume(u) ==
    /\ pc = "idle"
    /\ mode' = "resume"
    /\ user_input' = u
    /\ hist' = NewHist("resume", hist, ctx, disk, outcome)
    /\ outcome' = "none"
    /\ stage' = 0
    /\ pc' = "next"
    /\ UNCHANGED <<ctx, disk, tasks, exc, clock, faults>>

\* an exception e leaves the stage method or the check: inside run_full_workflow's
\* try the handler runs next, otherwise the exception reaches the caller
Raise(e) ==
    IF InTry(mode)
      THEN /\ pc' = "except"
           /\ exc' = e
           /\ UNCHANGED <<mode, outcome>>
      ELSE /\ pc' = "idle"
           /\ exc' = ""
           /\ mode' = "none"
           /\ outcome' = e

\* the field of stage i+1 holds a value: the stage is passed over
SkipStage ==
    /\ pc = "next"
    /\ stage < 5
    /\ Decision(mode, ctx, stage + 1, user_input) = "skip"
    /\ stage' = stage + 1
    /\ UNCHANGED <<ctx, disk, pc, mode, user_input, tasks, exc, hist, outcome, clock, faults>>

\* resume_workflow line 408
MissingInput ==
    /\ pc = "next"
    /\ stage < 5
    /\ Decision(mode, ctx, stage + 1, user_input) = "raise"
    /\ Raise("ValueError")
    /\ stage' = stage + 1
    /\ UNCHANGED <<ctx, disk, user_input, tasks, hist, clock, faults>>

\* a stage method that does not set current_stage on entry
EnterStage_unmarked ==
    /\ pc = "next"
    /\ stage < 5
    /\ Decision(mode, ctx, stage + 1, user_input) = "run"
    /\ stage' = stage + 1
    /\ ctx' = ctx
    /\ hist' = [hist EXCEPT !.entered = Append(@, stage + 1)]
    /\ IF stage + 1 = 3 /\ ModulesRaise(ctx.architecture)
         THEN /\ Raise("AttributeError")
              /\ tasks' = <<>>
         ELSE /\ tasks' = StageTasks(stage + 1, ctx)
              /\ pc' = "calls"
              /\ UNCHANGED <<mode, exc, outcome>>
    /\ UNCHANGED <<disk, user_input, clock, faults>>

\* a stage method from its first line to the point where its calls start
EnterStage ==
    /\ pc = "next"
    /\ stage < 5
    /\ Decision(mode, ctx, stage + 1, user_input) = "run"
    /\ stage' = stage + 1
    /\ ctx' = [ctx EXCEPT !.current_stage = StageName[stage + 1]]
    /\ hist' = [hist EXCEPT !.entered = Append(@, stage + 1)]
    /\ IF stage + 1 = 3 /\ ModulesRaise(ctx.architecture)
         THEN /\ Raise("AttributeError")
              /\ tasks' = <<>>
         ELSE /\ tasks' = StageTasks(stage + 1, ctx)
              /\ pc' = "calls"
              /\ UNCHANGED <<mode, exc, outcome>>
    /\ UNCHANGED <<disk, user_input, clock, faults>>

\* the event loop can run task t: no other task is inside its synchronous part,
\* the tasks start in the order gather received them, and a task that slept runs
\* after every task has started
CanRun(t) ==
    /\ pc = "calls"
    /\ t \in 1..Len(tasks)
    /\ tasks[t].st \in {"new", "ready", "retry"}
    /\ \A j \in 1..Len(tasks) : j # t => tasks[j].st \notin {"calling", "retry"}
    /\ tasks[t].st = "new" => \A j \in 1..(t - 1) : tasks[j].st # "new"
    /\ tasks[t].st = "ready" => \A j \in 1..Len(tasks) : tasks[j].st # "new"

\* model.generate_content(full_prompt, ...) is called (line 166)
CallStart(t) ==
    /\ CanRun(t)
    /\ tasks' = [tasks EXCEPT ![t].st = "calling"]
    /\ hist' = [hist EXCEPT !.called = @ \cup {stage}, !.ncalls = @ + 1]
    /\ UNCHANGED <<ctx, disk, pc, mode, user_input, stage, exc, outcome, clock, faults>>

\* generate_content or response.text raises
CallError(t) ==
    /\ pc = "calls"
    /\ t \in 1..Len(tasks)
    /\ tasks[t].st = "calling"
    /\ faults < MaxFaults
    /\ faults' = faults + 1
    /\ tasks' = [tasks EXCEPT ![t] = AfterError(@, Role[stage])]
    /\ UNCHANGED <<ctx, disk, pc, mode, user_input, stage, exc, hist, outcome, clock>>

\* a call whose task puts what it parsed straight into the shared context
CallResponse_shared(t, text) ==
    /\ pc = "calls"
    /\ t \in 1..Len(tasks)
    /\ tasks[t].st = "calling"
    /\ text \in ResponsesFor(Role[stage])
    /\ IF Truthy(ParsedResponse[text])
         THEN faults' = faults
         ELSE faults < MaxFaults /\ faults' = faults + 1
    /\ tasks' = [tasks EXCEPT ![t] = AfterResponse(@, Role[stage], text, ParsedResponse[text])]
    /\ ctx' = [ctx EXCEPT ![FieldName[stage]] = ParsedResponse[text]]
    /\ UNCHANGED <<disk, pc, mode, user_input, stage, exc, hist, outcome, clock>>

\* generate_content returns text, which is stripped and parsed
CallResponse(t, text) ==
    /\ pc = "calls"
    /\ t \in 1..Len(tasks)
    /\ tasks[t].st = "calling"
    /\ text \in ResponsesFor(Role[stage])
    /\ IF Truthy(ParsedResponse[text])
         THEN faults' = faults
         ELSE faults < MaxFaults /\ faults' = faults + 1
    /\ tasks' = [tasks EXCEPT ![t] = AfterResponse(@, Role[stage], text, ParsedResponse[text])]
    /\ UNCHANGED <<ctx, disk, pc, mode, user_input, stage, exc, hist, outcome, clock>>

\* asyncio.sleep(2 ** attempt) is over (line 179)
Wake(t) ==
    /\ pc = "calls"
    /\ t \in 1..Len(tasks)
    /\ tasks[t].st = "sleeping"
    /\ tasks' = [tasks EXCEPT ![t].st = "ready", ![t].attempt = @ + 1]
    /\ UNCHANGED <<ctx, disk, pc, mode, user_input, stage, exc, hist, outcome, clock, faults>>

\* a module task of the code stage ends with an exception before it calls the
\* producer (the api_manager handed to the constructor raises out of
\* generate_module_code)
TaskRaise(t) ==
    /\ CanRun(t)
    /\ stage = 3
    /\ tasks[t].st = "new"
    /\ faults < MaxFaults
    /\ faults' = faults + 1
    /\ tasks' = [tasks EXCEPT ![t].st = "raised"]
    /\ UNCHANGED <<ctx, disk, pc, mode, user_input, stage, exc, hist, outcome, clock>>

\* asyncio.gather has returned (workflow.py line 182): every task is over
AllTasksOver == \A j \in 1..Len(tasks) : tasks[j].st \in {"done", "raised"}

\* the result is stored into the context field and save_stage_output writes it
StageStore ==
    /\ pc = "calls"
    /\ AllTasksOver
    /\ ~(stage = 3 /\ MergeRaises(tasks))
    /\ ctx' = [ctx EXCEPT ![FieldName[stage]] = StageResult(stage, tasks)]
    /\ pc' = IF stage \in {1, 2} THEN "save" ELSE "files"
    /\ UNCHANGED <<disk, mode, user_input, stage, tasks, exc, hist, outcome, clock, faults>>

\* the result is stored and save_stage_output raises (the write fails)
StageStoreFails ==
    /\ pc = "calls"
    /\ AllTasksOver
    /\ ~(stage = 3 /\ MergeRaises(tasks))
    /\ faults < MaxFaults
    /\ faults' = faults + 1
    /\ ctx' = [ctx EXCEPT ![FieldName[stage]] = StageResult(stage, tasks)]
    /\ Raise("OSError")
    /\ UNCHANGED <<disk, user_input, stage, tasks, hist, clock>>

\* the merge loop of the code stage raises
MergeFails ==
    /\ pc = "calls"
    /\ AllTasksOver
    /\ stage = 3
    /\ MergeRaises(tasks)
    /\ Raise("AttributeError")
    /\ UNCHANGED <<ctx, disk, user_input, stage, tasks, hist, clock, faults>>

\* create_code_files, create_test_files, create_deployment_files_safe and the
\* index refresh after them
StageFiles ==
    /\ pc = "files"
    /\ ~FilesRaise(stage, ctx[FieldName[stage]])
    /\ pc' = "save"
    /\ UNCHANGED <<ctx, disk, mode, user_input, stage, tasks, exc, hist, outcome, clock, faults>>

\* the membership test before the files are written raises
StageFilesTypeError ==
    /\ pc = "files"
    /\ FilesRaise(stage, ctx[FieldName[stage]])
    /\ Raise("TypeError")
    /\ UNCHANGED <<ctx, disk, user_input, stage, tasks, hist, clock, faults>>

\* a file write of create_code_files or create_test_files raises
StageFilesFail ==
    /\ pc = "files"
    /\ stage \in {3, 4}
    /\ ~FilesRaise(stage, ctx[FieldName[stage]])
    /\ faults < MaxFaults
    /\ faults' = faults + 1
    /\ Raise("OSError")
    /\ UNCHANGED <<ctx, disk, user_input, stage, tasks, hist, clock>>

\* the save_context that ends a stage method
StageSave ==
    /\ pc = "save"
    /\ disk' = Persist(ctx)
    /\ hist' = [hist EXCEPT !.ever = EverAfter(ctx)]
    /\ tasks' = <<>>
    /\ pc' = "next"
    /\ UNCHANGED <<ctx, mode, user_input, stage, exc, outcome, clock, faults>>

\* all five stages are behind: current_stage = "completed", save_context, return
Finish ==
    /\ pc = "next"
    /\ stage = 5
    /\ ctx' = [ctx EXCEPT !.current_stage = "completed"]
    /\ disk' = Persist(ctx')
    /\ hist' = [hist EXCEPT !.ever = EverAfter(ctx')]
    /\ outcome' = "returned"
    /\ mode' = "none"
    /\ pc' = "idle"
    /\ UNCHANGED <<user_input, stage, tasks, exc, clock, faults>>

\* a handler that raises again without saving
Handler_nosave ==
    /\ pc = "except"
    /\ disk' = disk
    /\ hist' = [hist EXCEPT !.ever = EverAfter(ctx)]
    /\ outcome' = exc
    /\ exc' = ""
    /\ mode' = "none"
    /\ pc' = "idle"
    /\ UNCHANGED <<ctx, user_input, stage, tasks, clock, faults>>

\* the handler of run_full_workflow: save_context, then raise (lines 468-472)
Handler ==
    /\ pc = "except"
    /\ disk' = Persist(ctx)
    /\ hist' = [hist EXCEPT !.ever = EverAfter(ctx)]
    /\ outcome' = exc
    /\ exc' = ""
    /\ mode' = "none"
    /\ pc' = "idle"
    /\ UNCHANGED <<ctx, user_input, stage, tasks, clock, faults>>

TaskIds == 1..3

Next ==
    \/ (Construct /\ UNCHANGED <<pvars, fvars>>)
    \/ (Crash /\ UNCHANGED <<pvars, fvars>>)
    \/ (CrashInSave /\ UNCHANGED <<pvars, fvars>>)
    \/ (\E u \in UserInputs : Run(u) /\ UNCHANGED <<pvars, fvars>>)
    \/ (\E u \in UserInputs : Resume(u) /\ UNCHANGED <<pvars, fvars>>)
    \/ (SkipStage /\ UNCHANGED <<pvars, fvars>>)
    \/ (MissingInput /\ UNCHANGED <<pvars, fvars>>)
    \/ (EnterStage /\ UNCHANGED <<pvars, fvars>>)
    \/ (\E t \in TaskIds : CallStart(t) /\ UNCHANGED <<pvars, fvars>>)
    \/ (\E t \in TaskIds : CallError(t) /\ UNCHANGED <<pvars, fvars>>)
    \/ (\E t \in TaskIds : \E text \in AllResponses : CallResponse(t, text) /\ UNCHANGED <<pvars, fvars>>)
    \/ (\E t \in TaskIds : Wake(t) /\ UNCHANGED <<pvars, fvars>>)
    \/ (\E t \in TaskIds : TaskRaise(t) /\ UNCHANGED <<pvars, fvars>>)
    \/ (StageStore /\ UNCHANGED <<pvars, fvars>>)
    \/ (StageStoreFails /\ UNCHANGED <<pvars, fvars>>)
    \/ (MergeFails /\ UNCHANGED <<pvars, fvars>>)
    \/ (StageFiles /\ UNCHANGED <<pvars, fvars>>)
    \/ (StageFilesTypeError /\ UNCHANGED <<pvars, fvars>>)
    \/ (StageFilesFail /\ UNCHANGED <<pvars, fvars>>)
    \/ (StageSave /\ UNCHANGED <<pvars, fvars>>)
    \/ (Finish /\ UNCHANGED <<pvars, fvars>>)
    \/ (Handler /\ UNCHANGED <<pvars, fvars>>)

Spec == Init /\ [][Next]_vars


(***************************************************************************)
(* parse_json_response as a state machine over sample response texts       *)
(***************************************************************************)
ObjA == <<LB>> \o Q("a") \o <<CO, "1", RB>>
ObjK == <<LB>> \o Q("k") \o <<CO, "1", RB>>

SamplePrefixes ==
    {<<>>, <<"Here", SP>>, <<"Here", NL>>, <<FENCE, JSONTAG, NL>>, <<FENCE, NL>>,
     ObjA \o <<SP, FENCE, JSONTAG, SP>>}

SampleBodies ==
    {ObjA,
     <<LB>> \o Q("a") \o <<CO>> \o ObjK \o <<RB>>,
     <<LB>> \o Q("a") \o <<CO, "1", CM, RB>>,
     <<LB, QT, SP, "a", QT, CO, "1", CM, RB>>,
     <<LB, NL>> \o Q("a") \o <<CO, "1", NL, RB>>,
     <<LB>> \o Q("a") \o <<CO>> \o Q(RB) \o <<RB>>,
     <<LB>> \o Q("a") \o <<CO, "1">>,
     <<LB, RB>>,
     <<LK, "1", RK>>,
     <<"0">>,
     <<"Sorry">>}

SampleSuffixes == {<<>>, <<NL, FENCE>>, <<SP, "bye">>}

SampleTexts ==
    {p \o b \o x : p \in SamplePrefixes, b \in SampleBodies, x \in SampleSuffixes}

ParserInit ==
    /\ WfInit
    /\ FInit
    /\ ptext \in SampleTexts
    /\ pidx = 0
    /\ pret = [status |-> "running", val |-> None]

\* the strategy at position pidx + 1 gives a result that is returned
StrategyReturns ==
    /\ pret.status = "running"
    /\ pidx < Len(parsing_strategies)
    /\ StrategyStep(parsing_strategies[pidx + 1], ptext).kind = "return"
    /\ pret' = [status |-> "returned",
                val |-> StrategyStep(parsing_strategies[pidx + 1], ptext).val]
    /\ pidx' = pidx + 1
    /\ UNCHANGED ptext

\* the strategy at position pidx + 1 gives nothing that is returned
StrategyFails ==
    /\ pret.status = "running"
    /\ pidx < Len(parsing_strategies)
    /\ StrategyStep(parsing_strategies[pidx + 1], ptext).kind # "return"
    /\ pret' = IF StrategyStep(parsing_strategies[pidx + 1], ptext).kind = "raise"
                 THEN [status |-> "raised", val |-> None]
                 ELSE pret
    /\ pidx' = pidx + 1
    /\ UNCHANGED ptext

\* the loop is over: return None (line 207)
AllStrategiesFailed ==
    /\ pret.status = "running"
    /\ pidx = Len(parsing_strategies)
    /\ pret' = [status |-> "returned", val |-> None]
    /\ UNCHANGED <<ptext, pidx>>

ParserNext ==
    \/ (StrategyReturns /\ UNCHANGED <<wfvars, fvars>>)
    \/ (StrategyFails /\ UNCHANGED <<wfvars, fvars>>)
    \/ (AllStrategiesFailed /\ UNCHANGED <<wfvars, fvars>>)

ParserSpec == ParserInit /\ [][ParserNext]_vars

(***************************************************************************)
(* Artifact materialization: create_code_files, create_test_files and      *)
(* create_deployment_files_safe write one file per entry of a mapping of   *)
(* file name to content.  A file name is a sequence of tokens; a location  *)
(* is where the operating system puts the file, relative to the project    *)
(* directory: up counts the steps above it, abs tells a path from the root.*)
(***************************************************************************)
SL == "/"
US == "_"
DotDot == <<"..">>

RECURSIVE PathParts(_)
\* the components of a path: the runs of tokens between separators
PathParts(name) ==
    IF Len(name) = 0 THEN <<>>
    ELSE IF Find(name, SL, 1) = 0 THEN <<name>>
    ELSE IF Find(name, SL, 1) = 1 THEN PathParts(From(name, 2))
    ELSE <<SubSeq(name, 1, Find(name, SL, 1) - 1)>>
             \o PathParts(From(name, Find(name, SL, 1) + 1))

IsAbsolute(name) == Len(name) > 0 /\ name[1] = SL

Dir(path) == [abs |-> FALSE, up |-> 0, path |-> path]
FsRoot == [abs |-> TRUE, up |-> 0, path |-> <<>>]

RECURSIVE Walk(_, _)
\* the location reached from loc along the components parts
Walk(loc, parts) ==
    IF Len(parts) = 0 THEN loc
    ELSE IF parts[1] = DotDot THEN
        IF Len(loc.path) > 0
          THEN Walk([loc EXCEPT !.path = SubSeq(@, 1, Len(@) - 1)], Tail(parts))
        ELSE IF loc.abs THEN Walk(loc, Tail(parts))
        ELSE Walk([loc EXCEPT !.up = @ + 1], Tail(parts))
    ELSE Walk([loc EXCEPT !.path = Append(@, parts[1])], Tail(parts))

\* base / name as pathlib joins it and open() resolves it: an absolute name
\* replaces the base
JoinPath(base, name) ==
    IF IsAbsolute(name) THEN Walk(FsRoot, PathParts(name))
    ELSE Walk(base, PathParts(name))

\* loc lies in the directory dir (at any depth)
Inside(loc, dir) ==
    ~loc.abs /\ loc.up = 0 /\ Len(loc.path) > Len(dir.path)
        /\ SubSeq(loc.path, 1, Len(dir.path)) = dir.path

\* the directories of a stage: what the claim calls its target directory, and
\* the directory the file names are joined to
SampleModule == K("api")
ArtifactKinds == {"code", "tests", "deployment"}
TargetDir(kind) ==
    CASE kind = "code" -> Dir(<<K("03_code")>>)
      [] kind = "tests" -> Dir(<<K("04_tests")>>)
      [] kind = "deployment" -> Dir(<<K("05_deployment")>>)
BaseDir(kind) ==
    CASE kind = "code" -> Dir(<<K("03_code"), SampleModule>>)
      [] kind = "tests" -> Dir(<<K("04_tests")>>)
      [] kind = "deployment" -> Dir(<<K("05_deployment"), K("docker")>>)

\* loc is a directory that exists when the files of kind are written: open()
\* on it raises IsADirectoryError
ExistingDirectory(loc, kind) ==
    \/ Len(loc.path) = 0
    \/ (~loc.abs /\ loc.up = 0 /\ Len(loc.path) <= Len(BaseDir(kind).path)
          /\ SubSeq(BaseDir(kind).path, 1, Len(loc.path)) = loc.path)

\* re.sub(r'[<>:"/\\|?*]', '_', file_name)
UnsafeToks == {"<", ">", CO, QT, SL, BS, "|", "?", "*"}
safe_file_name(file_name) ==
    [i \in 1..Len(file_name) |->
        IF file_name[i] \in UnsafeToks THEN US ELSE file_name[i]]

\* the path a file name is written to: create_code_files and create_test_files
\* join the name as it is, create_deployment_files_safe joins the cleaned name
full_path(kind, file_name) ==
    IF kind = "deployment"
      THEN JoinPath(BaseDir(kind), safe_file_name(file_name))
      ELSE JoinPath(BaseDir(kind), file_name)

\* folder_path / f"error_{safe_file_name}.txt"
error_file(file_name) ==
    JoinPath(BaseDir("deployment"),
             <<"error_">> \o safe_file_name(file_name) \o <<".txt">>)

MaxFiles == 2

SampleNames ==
    {<<"main.py">>,
     <<"src", SL, "app.py">>,
     <<"..", SL, "evil.py">>,
     <<"..", SL, "..", SL, "evil.py">>,
     <<SL, "etc", SL, "passwd">>,
     <<"..">>}

\* the key sequences of a mapping: no key twice
SampleFileLists ==
    {fs \in UNION {[1..n -> SampleNames] : n \in 0..MaxFiles} :
        \A i, j \in 1..Len(fs) : i # j => fs[i] # fs[j]}

NewArtifacts(kind, fs) ==
    [kind |-> kind, files |-> fs, idx |-> 0, written |-> {}, failed |-> {},
     state |-> "writing"]

FilesInit ==
    /\ WfInit
    /\ PInit
    /\ artifacts \in {NewArtifacts(kind, fs) : kind \in ArtifactKinds,
                                                fs \in SampleFileLists}

\* the loop has a next entry
HasNextFile == artifacts.state = "writing" /\ artifacts.idx < Len(artifacts.files)
NextFile == artifacts.files[artifacts.idx + 1]

\* one iteration whose open() and write() succeed
WriteArtifact ==
    /\ HasNextFile
    /\ ~ExistingDirectory(full_path(artifacts.kind, NextFile), artifacts.kind)
    /\ artifacts' = [artifacts EXCEPT
                        !.written = @ \cup {full_path(artifacts.kind, NextFile)},
                        !.idx = @ + 1]

\* create_code_files, create_test_files: mkdir, open() or write() raises and
\* nothing catches it: the loop and the stage method are left
WriteArtifactRaises ==
    /\ HasNextFile
    /\ artifacts.kind \in {"code", "tests"}
    /\ artifacts' = [artifacts EXCEPT !.failed = @ \cup {artifacts.idx + 1},
                                      !.state = "raised"]

\* create_deployment_files_safe: the write raises, the handler writes the error
\* file and the loop goes on
DeploymentWriteCaught ==
    /\ HasNextFile
    /\ artifacts.kind = "deployment"
    /\ artifacts' = [artifacts EXCEPT !.failed = @ \cup {artifacts.idx + 1},
                                      !.written = @ \cup {error_file(NextFile)},
                                      !.idx = @ + 1]

\* create_deployment_files_safe: the write raises and the write of the error
\* file in the handler raises too
DeploymentHandlerRaises ==
    /\ HasNextFile
    /\ artifacts.kind = "deployment"
    /\ artifacts' = [artifacts EXCEPT !.failed = @ \cup {artifacts.idx + 1},
                                      !.state = "raised"]

\* the loop is over
ArtifactsDone ==
    /\ artifacts.state = "writing"
    /\ artifacts.idx = Len(artifacts.files)
    /\ artifacts' = [artifacts EXCEPT !.state = "done"]

FilesNext ==
    \/ (WriteArtifact /\ UNCHANGED <<wfvars, pvars>>)
    \/ (WriteArtifactRaises /\ UNCHANGED <<wfvars, pvars>>)
    \/ (DeploymentWriteCaught /\ UNCHANGED <<wfvars, pvars>>)
    \/ (DeploymentHandlerRaises /\ UNCHANGED <<wfvars, pvars>>)
    \/ (ArtifactsDone /\ UNCHANGED <<wfvars, pvars>>)

FilesSpec == FilesInit /\ [][FilesNext]_vars


(***************************************************************************)
(* Properties of call_api                                                  *)
(***************************************************************************)
\* the remote-call attempts one call_api invocation has made so far
Attempts(t) == Len(t.log) + (IF t.st = "calling" THEN 1 ELSE 0)

\* the attempts whose output parsed
ParsedAt(t) ==
    {k \in 1..Len(t.log) : t.log[k] \in AllResponses /\ ParsedResponse[t.log[k]] # None}

FirstOf(ks) == CHOOSE k \in ks : \A j \in ks : k <= j

\* C3: one call_api invocation makes at most 3 remote-call attempts, whatever
\* the outcome of each attempt; when 3 attempts have failed it has returned the
\* default record of its role and has raised nothing
C3_RetryBound ==
    pc = "calls" =>
        \A i \in 1..Len(tasks) :
            /\ Attempts(tasks[i]) <= 3
            /\ (Len(tasks[i].log) = 3 /\ ParsedAt(tasks[i]) = {}) =>
                   /\ tasks[i].st = "done"
                   /\ tasks[i].res = get_default_structure(Role[stage])

\* a call_api invocation whose three attempts failed, one by a producer error and
\* one by output that does not parse
C3_Witness ==
    /\ pc = "calls"
    /\ \E i \in 1..Len(tasks) :
          /\ tasks[i].st = "done"
          /\ Len(tasks[i].log) = 3
          /\ ParsedAt(tasks[i]) = {}
          /\ \E k \in 1..3 : tasks[i].log[k] = <<"<error>">>
          /\ \E k \in 1..3 : tasks[i].log[k] \in AllResponses
          /\ tasks[i].res = get_default_structure(Role[stage])

\* C4: call_api never raises; once an attempt's output parses no further remote
\* call is made and the value returned is the one parsed from that attempt;
\* a call_api that returns without such an attempt returns the default record
C4_FirstSuccess ==
    pc = "calls" =>
        \A i \in 1..Len(tasks) :
            /\ tasks[i].st = "raised" => tasks[i].log = <<>>
            /\ ParsedAt(tasks[i]) # {} =>
                   /\ tasks[i].st = "done"
                   /\ Len(tasks[i].log) = FirstOf(ParsedAt(tasks[i]))
                   /\ tasks[i].res = ParsedResponse[tasks[i].log[Len(tasks[i].log)]]
            /\ (tasks[i].st = "done" /\ ParsedAt(tasks[i]) = {}) =>
                   tasks[i].res = get_default_structure(Role[stage])

\* a call_api that returned the record of its second attempt after a first
\* attempt that failed
C4_Witness ==
    /\ pc = "calls"
    /\ \E i \in 1..Len(tasks) :
          /\ tasks[i].st = "done"
          /\ Len(tasks[i].log) = 2
          /\ ParsedAt(tasks[i]) = {2}
          /\ tasks[i].res = ParsedResponse[tasks[i].log[2]]

(***************************************************************************)
(* Properties of parse_json_response                                       *)
(***************************************************************************)
\* the four strategies in the order the specification gives them
DirectFencedBraceLine == <<"clean", "markdown", "partial", "line_by_line">>

\* a strategy succeeds on a text when it raises nothing and gives a value that
\* is neither empty nor false
Succeeds(n, text) == ApplyStrategy(n, text).ok /\ Truthy(ApplyStrategy(n, text).val)

SucceedingAt(text) == {k \in 1..4 : Succeeds(DirectFencedBraceLine[k], text)}

\* C5: the parser tries direct, fenced-block, brace-matched and line-accumulation
\* parse in that order and returns the result of the first that succeeds; a
\* failure inside a strategy never leaves the parser; when all four fail the
\* parser returns absence
C5_ParserOrder ==
    /\ pret.status # "raised"
    /\ pret.status = "returned" =>
          IF SucceedingAt(ptext) = {}
            THEN pret.val = None /\ pidx = 4
            ELSE /\ pidx = FirstOf(SucceedingAt(ptext))
                 /\ pret.val = ApplyStrategy(DirectFencedBraceLine[pidx], ptext).val

\* a text on which the direct parse raises, and the fenced-block and the
\* brace-matched parse both succeed with different values: the fenced one is
\* returned
C5_Witness ==
    /\ pret.status = "returned"
    /\ pidx = 2
    /\ ~ApplyStrategy("clean", ptext).ok
    /\ Succeeds("partial", ptext)
    /\ ApplyStrategy("partial", ptext).val # pret.val

(***************************************************************************)
(* Properties of run_full_workflow and resume_workflow                     *)
(***************************************************************************)
\* C1: no remote call of stage N+1 (architecture, code, review, deployment) is
\* in flight while the context field of stage N is absent, whatever runs,
\* resumes, failures and reloads came before
C1_MonotonicStages ==
    \A i \in 1..Len(tasks) :
        (pc = "calls" /\ stage >= 2 /\ tasks[i].st = "calling") =>
            Truthy(ctx[FieldName[stage - 1]])

\* a remote call of a later stage in flight under a resume in a process that
\* loaded the context an earlier process left behind
C1_Witness ==
    /\ pc = "calls"
    /\ stage >= 2
    /\ clock = 2
    /\ hist.kind = "resume"
    /\ Present(hist.ctx0) = {1}
    /\ \E i \in 1..Len(tasks) : tasks[i].st = "calling"

RECURSIVE AbsentFrom(_, _)
\* the stages from i on whose field of c is absent, in stage order
AbsentFrom(c, i) ==
    IF i > 5 THEN <<>>
    ELSE IF Truthy(c[FieldName[i]]) THEN AbsentFrom(c, i + 1)
    ELSE <<i>> \o AbsentFrom(c, i + 1)

IsPrefix(s, t) == Len(s) <= Len(t) /\ SubSeq(t, 1, Len(s)) = s

\* C7: a resume_workflow invocation enters the stages whose field was absent
\* when it was called, in stage order and each once, all of them when it returns;
\* it makes no remote call for a stage whose field was present
C7_ResumeRunsAbsent ==
    hist.kind = "resume" =>
        /\ IsPrefix(hist.entered, AbsentFrom(hist.ctx0, 1))
        /\ \A s \in Stages : Truthy(hist.ctx0[FieldName[s]]) => s \notin hist.called
        /\ (pc = "idle" /\ outcome = "returned") =>
               hist.entered = AbsentFrom(hist.ctx0, 1)

\* resume_workflow(None) with requirements loaded from a prior save and nothing
\* else: it returned, having skipped requirements and entered architecture once
C7_Witness ==
    /\ hist.kind = "resume"
    /\ pc = "idle"
    /\ outcome = "returned"
    /\ user_input = None
    /\ clock = 2
    /\ Present(hist.ctx0) = {1}
    /\ hist.entered = <<2, 3, 4, 5>>
    /\ 1 \notin hist.called
    /\ 2 \in hist.called

\* the five result fields of a context
ResultFields(c) == [i \in Stages |-> c[FieldName[i]]]

\* C2: a resume_workflow called after a resume_workflow that returned makes no
\* remote call and leaves the context in memory and the persisted context as
\* they were when it was called
C2_IdempotentResume ==
    (hist.kind = "resume" /\ hist.prev_ok) =>
        /\ hist.called = {}
        /\ ctx = hist.ctx0
        /\ pc = "idle" => disk = hist.disk0

\* C6: when a module task of the code stage has raised and all tasks are over,
\* the stage has not aborted: the combined result is stored, it holds what each
\* other task returned, the default developer record for each task that raised,
\* and the status partial_failure
C6_FanOutIsolation ==
    (stage = 3 /\ pc # "calls" /\ Len(tasks) > 0
        /\ \E i \in 1..Len(tasks) : IsException(tasks[i])) =>
        /\ exc # "AttributeError"
        /\ outcome # "AttributeError"
        /\ IsDict(ctx.codebase)
        /\ GetKey(ctx.codebase, K("status")) = PARTIAL_FAILURE
        /\ \A i \in 1..Len(tasks) :
              GetKey(GetKey(ctx.codebase, K("modules")), tasks[i].module) =
                  IF IsException(tasks[i]) THEN get_default_structure("developer")
                  ELSE tasks[i].res

\* C8: an invocation, run or resume, that meets the requirements stage with no
\* requirements result and no user input makes no remote call, leaves the result
\* fields as they were and ends with the missing-input error
C8_MissingInput ==
    (hist.kind # "none" /\ ~Truthy(hist.ctx0.requirements) /\ 1 \notin hist.ever
        /\ ~Truthy(user_input)) =>
        /\ hist.called = {}
        /\ ResultFields(ctx) = ResultFields(hist.ctx0)
        /\ pc = "idle" => outcome = "ValueError"

\* C9: run_full_workflow does at every stage what resume_workflow does from the
\* same context and input (skip it, raise the missing-input error, run it), makes
\* no remote call for a stage resume_workflow passes over, and ends as
\* resume_workflow does where that raises at its first check
C9_RunEqualsResume ==
    hist.kind = "run" =>
        /\ (pc = "next" /\ stage < 5) =>
              Decision(mode, ctx, stage + 1, user_input)
                  = ResumeDecision(ctx, stage + 1, user_input)
        /\ \A s \in Stages : Truthy(hist.ctx0[FieldName[s]]) => s \notin hist.called
        /\ (pc = "idle" /\ ResumeDecision(hist.ctx0, 1, user_input) = "raise") =>
              outcome = "ValueError" /\ disk = hist.disk0

\* C10: a stage result that has once been persisted is present in the persisted
\* context ever after, and in the context of every process that is up
C10_NoLoss ==
    \A i \in hist.ever :
        /\ disk.state = "ok" /\ Truthy(disk.data[FieldName[i]])
        /\ pc # "down" => Truthy(ctx[FieldName[i]])

(***************************************************************************)
(* The workflow against a producer that fails on every call: no process    *)
(* ends, every write succeeds, every invocation has a user input           *)
(***************************************************************************)
\* the response texts that parse to nothing call_api returns
UnparseableTexts == {text \in AllResponses : ~Truthy(ParsedResponse[text])}

\* generate_content raises (lines 176-182)
ProducerFails(t) ==
    /\ pc = "calls"
    /\ t \in 1..Len(tasks)
    /\ tasks[t].st = "calling"
    /\ tasks' = [tasks EXCEPT ![t] = AfterError(@, Role[stage])]
    /\ UNCHANGED <<ctx, disk, pc, mode, user_input, stage, exc, hist, outcome, clock, faults>>

\* generate_content returns a text of the role from which the parser recovers
\* nothing
ProducerGarbles(t, text) ==
    /\ pc = "calls"
    /\ t \in 1..Len(tasks)
    /\ tasks[t].st = "calling"
    /\ text \in UnparseableTexts \cap ResponsesFor(Role[stage])
    /\ tasks' = [tasks EXCEPT ![t] = AfterResponse(@, Role[stage], text, ParsedResponse[text])]
    /\ UNCHANGED <<ctx, disk, pc, mode, user_input, stage, exc, hist, outcome, clock, faults>>

GivenInputs == UserInputs \ {None}

LiveNext ==
    \/ (\E u \in GivenInputs : Run(u) /\ UNCHANGED <<pvars, fvars>>)
    \/ (\E u \in GivenInputs : Resume(u) /\ UNCHANGED <<pvars, fvars>>)
    \/ (SkipStage /\ UNCHANGED <<pvars, fvars>>)
    \/ (EnterStage /\ UNCHANGED <<pvars, fvars>>)
    \/ (\E t \in TaskIds : CallStart(t) /\ UNCHANGED <<pvars, fvars>>)
    \/ (\E t \in TaskIds : ProducerFails(t) /\ UNCHANGED <<pvars, fvars>>)
    \/ (\E t \in TaskIds : \E text \in AllResponses : ProducerGarbles(t, text) /\ UNCHANGED <<pvars, fvars>>)
    \/ (\E t \in TaskIds : Wake(t) /\ UNCHANGED <<pvars, fvars>>)
    \/ (StageStore /\ UNCHANGED <<pvars, fvars>>)
    \/ (StageFiles /\ UNCHANGED <<pvars, fvars>>)
    \/ (StageSave /\ UNCHANGED <<pvars, fvars>>)
    \/ (Finish /\ UNCHANGED <<pvars, fvars>>)

\* the event loop runs a task that can run, a sleep ends, the producer answers
\* every call, and the caller goes on calling
LiveSpec == Init /\ [][LiveNext]_vars /\ WF_vars(LiveNext)

\* C11: against a producer that fails on every call, by error or by output that
\* does not parse, with every write succeeding, every run_full_workflow and
\* resume_workflow given a user input ends: it returns with current_stage
\* completed and all five result fields present, in memory and in the file
C11_LivenessUnderFailure ==
    (pc # "idle") ~>
        (/\ pc = "idle"
         /\ outcome = "returned"
         /\ ctx.current_stage = "completed"
         /\ Present(ctx) = Stages
         /\ PresentOnDisk(disk) = Stages)

\* a run that has returned with the fallback record in every field after calls
\* in all five stages
C11_Witness ==
    /\ pc = "idle"
    /\ outcome = "returned"
    /\ hist.kind = "run"
    /\ hist.called = Stages
    /\ ctx.current_stage = "completed"
    /\ ctx.requirements = get_default_structure("planner")
    /\ ctx.deployment = get_default_structure("devops")
    /\ GetKey(GetKey(ctx.codebase, K("modules")), K("frontend"))
           = get_default_structure("developer")

(***************************************************************************)
(* Properties of failure, persistence and reload                           *)
(***************************************************************************)
\* the exceptions a stage method lets out
StageErrors == {"AttributeError", "TypeError", "OSError"}

\* the context a process has right after construction with the file f
LoadedAt(t, f) == load_existing_context(ProjectContext(t), f)

\* what the file f holds: a file that is missing or unreadable holds no result
FileContext(f) == IF f.state = "ok" THEN f.data ELSE ProjectContext(0)

C13_ResultFieldInvariant ==
    /\ (pc = "idle" /\ hist.kind # "none" /\ outcome \in StageErrors) =>
          /\ ~Truthy(ctx[FieldName[stage]])
          /\ ~Truthy(FileContext(disk)[FieldName[stage]])
    /\ (pc = "idle" /\ hist.kind # "none" /\ outcome = "returned") =>
          /\ Present(ctx) = Stages
          /\ PresentOnDisk(disk) = Stages

\* C14: whenever a remote call of stage N+1 is in flight, the file already
\* holds the result of stage N, over any sequence of run and resume calls of one
\* manager
C14_PersistBeforeProceeding ==
    \A i \in 1..Len(tasks) :
        (pc = "calls" /\ stage >= 2 /\ tasks[i].st = "calling") =>
            Truthy(FileContext(disk)[FieldName[stage - 1]])

\* C15: while a remote call of stage N is in flight, the context a process
\* started after a crash at this point would load has current_stage equal to
\* stage N and the result field of stage N absent
C15_CrashDuringStage ==
    \A i \in 1..Len(tasks) :
        (pc = "calls" /\ tasks[i].st = "calling") =>
            /\ LoadedAt(clock + 1, disk).current_stage = StageName[stage]
            /\ ~Truthy(LoadedAt(clock + 1, disk)[FieldName[stage]])

\* a call_api invocation that made three attempts none of which parsed, and
\* returned the default record
FellBack(t) == t.st = "done" /\ Len(t.log) = 3 /\ ParsedAt(t) = {}

\* C16: when a call_api made for a stage fell back to the default record, the
\* record stored in the field of that stage has the status partial_failure
C16_DegradedStatus ==
    (pc \in {"files", "save"} /\ \E i \in 1..Len(tasks) : FellBack(tasks[i])) =>
        /\ IsDict(ctx[FieldName[stage]])
        /\ HasKey(ctx[FieldName[stage]], K("status"))
        /\ GetKey(ctx[FieldName[stage]], K("status")) = PARTIAL_FAILURE

\* C17: within one call_api, a backoff wait has preceded every attempt after
\* the first, whether the attempt before failed by an error or by output that
\* does not parse: 1 unit before the second attempt, 2 before the third
C17_BackoffBeforeRetry ==
    pc = "calls" =>
        \A i \in 1..Len(tasks) :
            tasks[i].st = "calling" =>
                tasks[i].sleeps = SubSeq(<<1, 2>>, 1, tasks[i].attempt)

\* C18: what the parser returns is absence or a mapping: a response whose top
\* level is a list, a number or a string is never returned
C18_ParserReturnsMappings ==
    pret.status = "returned" => (pret.val = None \/ IsDict(pret.val))

\* the object that stands at the first opening brace of text, as the decoder
\* reads it (strings and nesting respected), with the index after it
ObjectAtFirstBrace(text) ==
    IF Find(text, LB, 1) = 0 THEN Fail ELSE ParseValue(text, Find(text, LB, 1))

\* the brace-matched strategy has been tried on ptext
PartialTried == pidx >= 3

\* C19: on noise, one well-formed object and more noise, the brace-matched
\* strategy extracts the text from the first opening brace to the brace that
\* closes the object and yields that object; when the brace count never returns
\* to zero it fails
C19_BraceMatchedParse ==
    /\ (PartialTried /\ ObjectAtFirstBrace(ptext).ok) =>
          /\ partial_extract(ptext) =
                SubSeq(ptext, Find(ptext, LB, 1), ObjectAtFirstBrace(ptext).pos - 1)
          /\ parse_partial_json(ptext) =
                [ok |-> TRUE, val |-> ObjectAtFirstBrace(ptext).val]
    /\ (PartialTried /\ Find(ptext, LB, 1) # 0
            /\ BraceEnd(ptext, Find(ptext, LB, 1), 0) = 0) =>
          parse_partial_json(ptext) = Raised

\* text is one line holding an object that is well formed once the comma
\* before its closing brace is dropped
OneLineTrailingComma(text) ==
    /\ Len(text) > 0
    /\ text[1] = LB
    /\ text[Len(text)] = RB
    /\ Find(text, NL, 1) = 0
    /\ StripTrailingCommas(text) # text
    /\ json_loads(StripTrailingCommas(text)).ok
    /\ IsDict(json_loads(StripTrailingCommas(text)).val)

\* C20: on a one-line object with a comma before its closing brace, the
\* line-accumulation strategy with its repair pass succeeds and yields the
\* object without the comma, which is what the parser returns
C20_TrailingCommaRepair ==
    (OneLineTrailingComma(ptext) /\ pidx = Len(parsing_strategies)) =>
        /\ parse_line_by_line_json(ptext) =
              [ok |-> TRUE, val |-> json_loads(StripTrailingCommas(ptext)).val]
        /\ pret = [status |-> "returned",
                   val |-> json_loads(StripTrailingCommas(ptext)).val]

\* the openings of a fenced block: with and without the language tag
FenceOpenings == {<<FENCE, JSONTAG, NL>>, <<FENCE, NL>>}

\* text is the well-formed object text b wrapped in a fenced block
WrapsObject(text, b) ==
    /\ \E open \in FenceOpenings : text = open \o b \o <<NL, FENCE>>
    /\ json_loads(b).ok
    /\ IsDict(json_loads(b).val)

\* C21: for a response that wraps a well-formed object in a fenced block, the
\* brace-matched strategy on the interior gives the record that the
\* fenced-block strategy gives on the wrapped text
C21_ParserRobustness ==
    \A b \in SampleBodies :
        (WrapsObject(ptext, b) /\ pidx >= 2) =>
            /\ parse_markdown_json(ptext) = [ok |-> TRUE, val |-> json_loads(b).val]
            /\ parse_partial_json(b) = parse_markdown_json(ptext)

\* C22: created_at keeps the value it got when the project was created: no step
\* of a live process changes it in memory, and no save over a readable
\* project_context.json changes the created_at the file carries
C22_CreatedAtSetOnce ==
    [][/\ (pc # "down" /\ pc' # "down") => ctx'.created_at = ctx.created_at
       /\ (disk.state = "ok" /\ disk'.state = "ok") =>
              disk'.data.created_at = disk.data.created_at]_vars

\* C23: once a result field of the in-memory context holds a value, no step of
\* any later run or resume on that manager changes it or clears it
C23_AppendOnly ==
    [][\A i \in Stages :
          (pc # "down" /\ pc' # "down" /\ ctx[FieldName[i]] # None) =>
              ctx'[FieldName[i]] = ctx[FieldName[i]]]_vars

\* a run on a manager that already held the requirements result has run later
\* stages to the end and the requirements result is the one it started with
C23_Witness ==
    /\ pc = "idle"
    /\ outcome = "returned"
    /\ hist.kind = "run"
    /\ clock = 1
    /\ Present(hist.ctx0) = {1}
    /\ hist.called = {2, 3, 4, 5}
    /\ ctx.requirements = hist.ctx0.requirements
    /\ ctx.requirements # get_default_structure("planner")

\* C24: whenever current_stage is "completed", in memory or in the file, all
\* five result fields are present there
C24_CompletedMeansAll ==
    /\ (pc # "down" /\ ctx.current_stage = "completed") => Present(ctx) = Stages
    /\ (disk.state = "ok" /\ disk.data.current_stage = "completed") =>
           PresentOnDisk(disk) = Stages

\* a new process has loaded a completed context and a run on it has returned
\* without a remote call
C24_Witness ==
    /\ clock = 2
    /\ pc = "idle"
    /\ outcome = "returned"
    /\ hist.kind = "run"
    /\ hist.called = {}
    /\ hist.ctx0.current_stage = "completed"
    /\ ctx.current_stage = "completed"
    /\ disk.state = "ok"
    /\ disk.data.current_stage = "completed"

\* the place of a current_stage value in the order of the workflow
StageRank(n) ==
    CASE n = "not_started" -> 0
      [] n = "requirements" -> 1
      [] n = "architecture" -> 2
      [] n = "code" -> 3
      [] n = "review" -> 4
      [] n = "deployment" -> 5
      [] n = "completed" -> 6

\* C25: current_stage never moves backward: not from one step of a live process
\* to the next in memory, not from one readable file to the next, and a
\* readable file never carries a current_stage that lies before a stage whose
\* result an earlier snapshot held
C25_LinearProgression ==
    /\ [][(pc # "down" /\ pc' # "down") =>
              StageRank(ctx'.current_stage) >= StageRank(ctx.current_stage)]_vars
    /\ [][(disk.state = "ok" /\ disk'.state = "ok") =>
              StageRank(disk'.data.current_stage) >=
                  StageRank(disk.data.current_stage)]_vars
    /\ [](disk.state = "ok" =>
              \A i \in hist.ever : StageRank(disk.data.current_stage) >= i)

\* the entries of the mapping that come after entry i and whose own write did
\* not fail
LaterFiles(i) ==
    {j \in (i + 1)..Len(artifacts.files) : j \notin artifacts.failed}

\* C26: when the write of one file fails while a stage writes its files, the
\* failure is caught: the stage is not left by an exception, and once the loop
\* is over every later entry whose own write did not fail has been written
C26_PerFileWriteFailure ==
    \A i \in artifacts.failed :
        /\ artifacts.state # "raised"
        /\ artifacts.state = "done" =>
               \A j \in LaterFiles(i) :
                   full_path(artifacts.kind, artifacts.files[j]) \in artifacts.written

\* C27: no file is written outside the target directory of its stage, whatever
\* the file names of the mapping are
C27_PathContainment ==
    \A loc \in artifacts.written : Inside(loc, TargetDir(artifacts.kind))

\* task j is the next module task the event loop has yet to start
NextToStart(j) ==
    tasks[j].st = "new" /\ \A k \in 1..(j - 1) : tasks[k].st # "new"

\* C28: in the code stage the remote call of one module does not wait for the
\* end of the remote call of another: while one module's call is in flight,
\* the next module task can start its own call
C28_ConcurrentFanOut ==
    (pc = "calls" /\ stage = 3) =>
        \A i, j \in 1..Len(tasks) :
            (i # j /\ tasks[i].st = "calling" /\ NextToStart(j)) => CanRun(j)

\* the module tasks of the code stage are under way
FanOutOpen == pc = "calls" /\ stage = 3

\* C29: while the module tasks of the code stage are under way nothing writes
\* the context or the file: the codebase field is written in one step, by the
\* control flow, when every module task is over
C29_FanOutFrame ==
    [][/\ (FanOutOpen /\ pc' = "calls") => (ctx' = ctx /\ disk' = disk)
       /\ (pc # "down" /\ pc' # "down" /\ ctx'.codebase # ctx.codebase) =>
              /\ FanOutOpen
              /\ \A j \in 1..Len(tasks) : tasks[j].st \in {"done", "raised"}
              /\ ctx.codebase = None
              /\ disk' = disk
              /\ \A i \in Stages \ {3} : ctx'[FieldName[i]] = ctx[FieldName[i]]]_vars

\* two module tasks have made their calls, one of them after a retry, and the
\* context and the file are those the stage was entered with, current_stage apart
C29_Witness ==
    /\ FanOutOpen
    /\ Len(tasks) = 2
    /\ \A j \in 1..2 : tasks[j].st = "done"
    /\ \E j \in 1..2 : Len(tasks[j].log) > 1
    /\ ctx.codebase = None
    /\ ctx.current_stage = "code"
    /\ disk.state = "ok"
    /\ disk.data.current_stage = "architecture"
    /\ ctx.architecture = disk.data.architecture

\* the list the code stage is to fan out over: the names under the "modules"
\* key of the architecture result, the fixed list when there is no such key
ExpectedModules(arch) ==
    IF IsDict(arch) /\ HasKey(arch, K("modules"))
      THEN [i \in 1..Len(GetKey(arch, K("modules")).arr) |->
                GetKey(arch, K("modules")).arr[i].str]
      ELSE <<K("backend"), K("frontend"), K("database")>>

\* the code stage has been entered and is at or past its fan-out
CodeStageEntered ==
    /\ stage = 3
    /\ hist.kind # "none"
    /\ Len(hist.entered) > 0
    /\ hist.entered[Len(hist.entered)] = 3
    /\ \/ pc \in {"calls", "files", "save", "except"}
       \/ (pc = "idle" /\ outcome \in StageErrors)

\* C30: the code stage makes one developer invocation for each element of the
\* module list of the architecture result, in that order, and of the fixed
\* list backend, frontend, database when the result has no "modules" key
C30_ModuleList ==
    CodeStageEntered =>
        /\ Len(tasks) = Len(ExpectedModules(ctx.architecture))
        /\ \A j \in 1..Len(tasks) :
               tasks[j].module = ExpectedModules(ctx.architecture)[j]

\* the elements of a sequence
Range(xs) == {xs[i] : i \in 1..Len(xs)}

\* the dependencies declared by the module records of a combined code result
DeclaredDeps(cb) ==
    UNION {Range(DepsOf(GetKey(cb, K("modules")).obj[i].v)) :
               i \in 1..Len(GetKey(cb, K("modules")).obj)}

\* C31: the dependencies of the combined code result hold no element twice and
\* are, as a set, the union of the dependencies declared by the module records
\* stored in its modules map
C31_DependencyAggregation ==
    (pc # "down" /\ ctx.codebase # None) =>
        /\ \A i, j \in 1..Len(GetKey(ctx.codebase, K("dependencies")).arr) :
               i # j => GetKey(ctx.codebase, K("dependencies")).arr[i]
                            # GetKey(ctx.codebase, K("dependencies")).arr[j]
        /\ Range(GetKey(ctx.codebase, K("dependencies")).arr) = DeclaredDeps(ctx.codebase)

\* the result stored for stage s in context c is a fallback: the default record
\* of the stage's role, and for the code stage a combined result that holds the
\* default developer record for one of its modules
DefaultStored(c, s) ==
    IF s = 3
      THEN /\ IsDict(c.codebase)
           /\ HasKey(c.codebase, K("modules"))
           /\ \E i \in 1..Len(GetKey(c.codebase, K("modules")).obj) :
                  GetKey(c.codebase, K("modules")).obj[i].v
                      = get_default_structure("developer")
      ELSE c[FieldName[s]] = get_default_structure(Role[s])

\* C32: a stage whose stored result is a fallback record, in the context the
\* invocation starts with or in the file it finds, is not entered again and no
\* remote call is issued for it
C32_DegradedCountsAsFinished ==
    \A s \in Stages :
        (hist.kind # "none"
            /\ (DefaultStored(hist.ctx0, s) \/ DefaultStored(FileContext(hist.disk0), s))) =>
                /\ s \notin hist.called
                /\ \A k \in 1..Len(hist.entered) : hist.entered[k] # s

\* a resume on a context whose requirements are the planner's fallback record
\* has run the four remaining stages and returned
C32_Witness ==
    /\ pc = "idle"
    /\ outcome = "returned"
    /\ hist.kind = "resume"
    /\ DefaultStored(hist.ctx0, 1)
    /\ DefaultStored(FileContext(hist.disk0), 1)
    /\ hist.entered = <<2, 3, 4, 5>>
    /\ hist.called = {2, 3, 4, 5}
    /\ ctx.requirements = get_default_structure("planner")

\* C33: whenever a remote call is in flight, the current_stage in memory is the
\* stage whose method issued the call
C33_StageEntryBeforeCall ==
    \A t \in 1..Len(tasks) :
        (pc = "calls" /\ tasks[t].st = "calling") =>
            ctx.current_stage = StageName[stage]

\* a developer call is in flight in a process that loaded a context at
\* architecture, and current_stage is code
C33_Witness ==
    /\ pc = "calls"
    /\ stage = 3
    /\ clock = 2
    /\ hist.ctx0.current_stage = "architecture"
    /\ \E t \in 1..Len(tasks) : tasks[t].st = "calling" /\ tasks[t].attempt > 0
    /\ ctx.current_stage = "code"

\* the responses whose text is well-formed and holds an empty or false value
EmptyTexts ==
    {text \in AllResponses :
        json_loads(Strip(text)).ok /\ ~Truthy(json_loads(Strip(text)).val)}

\* C34: call_api never returns an empty or false value, a response that parses
\* to one never ends the invocation except as its third failure, and then the
\* invocation returns the default record of its role
C34_EmptyResultIsFailure ==
    pc = "calls" =>
        \A i \in 1..Len(tasks) :
            /\ tasks[i].st = "done" => Truthy(tasks[i].res)
            /\ \A k \in 1..Len(tasks[i].log) :
                   (tasks[i].log[k] \in EmptyTexts /\ ParsedResponse[tasks[i].log[k]] = None
                        /\ k = Len(tasks[i].log) /\ tasks[i].st = "done") =>
                       /\ k = 3
                       /\ tasks[i].res = get_default_structure(Role[stage])
            /\ \A k \in 1..Len(tasks[i].log) :
                   tasks[i].log[k] \in EmptyTexts => ParsedResponse[tasks[i].log[k]] = None

\* a call_api invocation that got the empty object three times in a row and
\* returned the default record
C34_Witness ==
    /\ pc = "calls"
    /\ \E i \in 1..Len(tasks) :
           /\ tasks[i].st = "done"
           /\ tasks[i].log = <<TxtEmpty, TxtEmpty, TxtEmpty>>
           /\ tasks[i].res = get_default_structure(Role[stage])

\* no result field of context c holds anything
AllAbsent(c) == \A i \in Stages : c[FieldName[i]] = None

\* C35: a context at not_started holds no result, in the memory of a live
\* process and in every readable file, and the invocation that takes the
\* unconditional five-stage path of run_full_workflow started with no result
C35_FreshStartGuard ==
    /\ (pc # "down" /\ ctx.current_stage = "not_started") => AllAbsent(ctx)
    /\ (disk.state = "ok" /\ disk.data.current_stage = "not_started") =>
           AllAbsent(disk.data)
    /\ mode = "run" => AllAbsent(hist.ctx0)

\* run_full_workflow in a second process, which found a file it could load
\* nothing from, has taken the five-stage path to the end
C35_Witness ==
    /\ pc = "idle"
    /\ outcome = "returned"
    /\ clock = 2
    /\ hist.kind = "run"
    /\ hist.ctx0.current_stage = "not_started"
    /\ hist.disk0.state = "corrupt"
    /\ hist.entered = <<1, 2, 3, 4, 5>>
    /\ Present(ctx) = Stages

\* run_full_workflow, called on a project at not_started, has returned with
\* the workflow completed
FreshRunCompleted ==
    /\ pc = "idle"
    /\ outcome = "returned"
    /\ hist.kind = "run"
    /\ hist.ctx0.current_stage = "not_started"
    /\ ctx.current_stage = "completed"

\* the number of elements of the module list the code stage used
M == Len(StageTasks(3, ctx))

\* C36: a run from a fresh project that reaches completed has issued at least
\* 4 + M and at most 3 * (4 + M) remote calls, M being the number of elements
\* of the module list of the code stage, and when the calls of a stage are
\* over each non-code stage and each module has accounted for 1 to 3 of them
C36_RemoteCallBudget ==
    /\ FreshRunCompleted =>
           /\ hist.ncalls >= 4 + M
           /\ hist.ncalls <= 3 * (4 + M)
    /\ (pc = "calls" /\ AllTasksOver) =>
           \A i \in 1..Len(tasks) : Len(tasks[i].log) \in 1..3

RECURSIVE TotalBackoff(_)
\* the time units one call_api invocation has spent in asyncio.sleep
TotalBackoff(sleeps) ==
    IF sleeps = <<>> THEN 0 ELSE Head(sleeps) + TotalBackoff(Tail(sleeps))

\* C37: one call_api invocation does not wait after its third attempt, and the
\* backoff it has waited in total is at most 3 time units, whatever the
\* outcomes of its attempts
C37_BackoffBound ==
    pc = "calls" =>
        \A i \in 1..Len(tasks) :
            /\ TotalBackoff(tasks[i].sleeps) <= 3
            /\ Len(tasks[i].log) >= 3 => tasks[i].st = "done"
            /\ tasks[i].st = "sleeping" => Len(tasks[i].log) < 3
            /\ Len(tasks[i].sleeps) <= Len(tasks[i].log)

\* a call_api invocation whose three attempts all raised: it waited 1 and 2
\* units and came back with the default record
C37_Witness ==
    /\ pc = "calls"
    /\ \E i \in 1..Len(tasks) :
           /\ tasks[i].st = "done"
           /\ tasks[i].log = <<<<"<error>">>, <<"<error>">>, <<"<error>">>>>
           /\ tasks[i].sleeps = <<1, 2>>
           /\ TotalBackoff(tasks[i].sleeps) = 3
           /\ tasks[i].res = get_default_structure(Role[stage])

DistinctModules(ts) ==
    \A i, j \in 1..Len(ts) : ts[i].module = ts[j].module => i = j

\* C39: for a module list with distinct names, the combined result of the code
\* stage holds one record for each module, and the record under the name of a
\* module whose task returned is what that task returned, in whatever order
\* the module tasks were over and however often they tried again
C39_ResultToModule ==
    (stage = 3 /\ pc \in {"files", "save"} /\ DistinctModules(tasks)) =>
        /\ IsDict(ctx.codebase)
        /\ Len(GetKey(ctx.codebase, K("modules")).obj) = Len(tasks)
        /\ \A i \in 1..Len(tasks) :
               /\ HasKey(GetKey(ctx.codebase, K("modules")), tasks[i].module)
               /\ ~IsException(tasks[i]) =>
                      GetKey(GetKey(ctx.codebase, K("modules")), tasks[i].module)
                          = tasks[i].res

\* the task of the first module tried three times and came back with the
\* default record after the task of the second module had returned what the
\* producer sent at its first attempt; each record is under its module's name
C39_Witness ==
    /\ stage = 3
    /\ pc = "files"
    /\ Len(tasks) = 2
    /\ tasks[1].module = K("api")
    /\ tasks[2].module = K("web")
    /\ Len(tasks[1].log) = 3
    /\ tasks[1].sleeps = <<1, 2>>
    /\ tasks[2].log = <<TxtDev>>
    /\ tasks[1].res # tasks[2].res
    /\ GetKey(GetKey(ctx.codebase, K("modules")), K("api"))
           = get_default_structure("developer")
    /\ GetKey(GetKey(ctx.codebase, K("modules")), K("web")) = ParsedResponse[TxtDev]


====
